---- MODULE Spec2Model ----
(***************************************************************************)
(* Model of app_Version2.py, a Streamlit script.  Streamlit re-executes    *)
(* the whole script, top to bottom, for every widget interaction; the only *)
(* state that survives a rerun is the st.cache_resource cache of           *)
(* load_model and the widget values.  One script run is modelled as the    *)
(* sequence of its steps: load the model (lines 28-33), the Analyze button *)
(* (lines 73-80), the four tabs (lines 82-179), the expander (182-201).    *)
(***************************************************************************)
EXTENDS Integers, Sequences, FiniteSets

VARIABLES
    installed,      \* model identifiers spacy.load can find (environment)
    cache,          \* st.cache_resource: identifier -> cached object or NoModel
    loads,          \* per identifier, how many times spacy.load returned
    model_name,     \* value of the sidebar selectbox in this run         (l.22)
    text_input,     \* value of the text area in this run                 (l.69)
    clickPending,   \* the rerun request carries a click on "Analyze Text"
    pc,             \* position of the running script
    nlp,            \* the script's nlp variable; NoModel while unbound    (l.29)
    reused,         \* load_model was answered from the cache in this run
    sidebar,        \* "none", "success" (l.30) or "error" (l.32)
    button,         \* what st.button("Analyze Text") returned            (l.73)
    validationError,\* st.error of line 75 was shown
    doc,            \* the script's doc variable                          (l.77)
    inferCalls,     \* calls nlp(...) made in this run, in order
    view1, view2, view3, view4, \* what tab1 .. tab4 rendered in this run
    expander        \* the "Entity Types Explanation" panel was rendered

vars == <<installed, cache, loads, model_name, text_input, clickPending, pc,
          nlp, reused, sidebar, button, validationError, doc, inferCalls,
          view1, view2, view3, view4, expander>>

sessionVars == <<installed, cache, loads>>
widgetVars  == <<model_name, text_input, clickPending>>
viewVars    == <<view1, view2, view3, view4>>

----------------------------------------------------------------------------
(* Bounds of the model *)

MaxTextLen == 2     \* length of the text typed into the text area
MaxSessEnts == 2    \* entities per inference result, session specification
MaxEnts == 3        \* entities per inference result, renderer specification
CsvMaxLen == 1      \* characters of an entity text, export specification
CsvMaxRows == 2     \* entities per inference result, export specification
MaxLoads == 2       \* cap of the loads counter

SeqsUpTo(S, n) == UNION {[1..k -> S] : k \in 0..n}
NonEmptySeqsUpTo(S, n) == UNION {[1..k -> S] : k \in 1..n}

----------------------------------------------------------------------------
(* Program constants *)

\* the options of the selectbox, in order; the first is the default
ModelChoices == <<"en_core_web_sm", "en_core_web_md", "en_core_web_lg">>
Models == {ModelChoices[i] : i \in DOMAIN ModelChoices}

entity_colors ==
    [PERSON |-> "#7aecec", ORG |-> "#feca74", GPE |-> "#ff9561",
     LOC |-> "#ff8197", DATE |-> "#bfe1d9", TIME |-> "#bfe1d9",
     MONEY |-> "#e4e7d2", PERCENT |-> "#e4e7d2", WORK_OF_ART |-> "#f0d0ff",
     FAC |-> "#aab7d4", PRODUCT |-> "#bfeeb7", EVENT |-> "#f89e96",
     LAW |-> "#ddd1ff", LANGUAGE |-> "#ff8461", QUANTITY |-> "#e4e7d2"]

FallbackColor == "#cccccc"

\* entity_colors.get(label, "#cccccc")
EntityColor(label) ==
    IF label \in DOMAIN entity_colors THEN entity_colors[label] ELSE FallbackColor

----------------------------------------------------------------------------
(* Inputs: texts, entity labels, inference results *)

\* characters of the text area: a whitespace character and a letter
TextAlphabet == {" ", "x"}
Texts == SeqsUpTo(TextAlphabet, MaxTextLen)
\* the value= of st.text_area, a sentence: some text that is not blank
DefaultText == <<"x">>

IsSpace(c) == c = " "

RECURSIVE LStrip(_)
LStrip(s) == IF s # <<>> /\ IsSpace(Head(s)) THEN LStrip(Tail(s)) ELSE s

RECURSIVE RStrip(_)
RStrip(s) ==
    IF s # <<>> /\ IsSpace(s[Len(s)]) THEN RStrip(SubSeq(s, 1, Len(s) - 1)) ELSE s

\* bug: the text is tested as typed, "if not text_input"
StripNothing(s) == s

\* str.strip()
Strip(s) == RStrip(LStrip(s))

\* labels the model may return: two that entity_colors maps and one (NORP)
\* that it does not
Labels == {"PERSON", "ORG", "NORP"}

\* characters an entity text is made of; QUOTE is the double quote and LF the
\* line feed
QUOTE == "QUOTE"
LF == "LF"
COMMA == ","
CsvAlphabet == {"a", COMMA, QUOTE, LF}

\* the characters of a label, for the export
LabelChars ==
    [PERSON |-> <<"P", "E", "R", "S", "O", "N">>,
     ORG |-> <<"O", "R", "G">>,
     NORP |-> <<"N", "O", "R", "P">>]

Entity(t, l) == [text |-> t, label |-> l]

SessionEntities == {Entity(<<"a">>, "PERSON"), Entity(<<"b">>, "NORP")}
RenderEntities == {Entity(t, l) : t \in {<<"a">>, <<"b">>}, l \in Labels}
CsvEntities ==
    {Entity(t, l) : t \in NonEmptySeqsUpTo(CsvAlphabet, CsvMaxLen), l \in Labels}

NoModel == [name |-> "none", serial |-> 0]
NoDoc == [bound |-> FALSE, ents |-> <<>>]
Doc(ents) == [bound |-> TRUE, ents |-> ents]
NotRendered == [kind |-> "none"]
Notice == [kind |-> "notice"]     \* st.info("No entities were detected ...")

----------------------------------------------------------------------------
(* tab1: displacy.render(doc, style="ent", ...), lines 82-86.  The markup is *)
(* the document text with one mark per entity, in document order; how        *)
(* displaCy resolves a mark's colour is inside the library.                  *)

DisplacyRender(text, ents) ==
    [kind |-> "markup", text |-> text,
     marks |-> [i \in DOMAIN ents |-> <<ents[i].text, ents[i].label>>]]

----------------------------------------------------------------------------
(* tab2: the table and its CSV export, lines 90-99 *)

\* [(ent.text, ent.label_) for ent in doc.ents]
EntitiesData(ents) == [i \in DOMAIN ents |-> <<ents[i].text, ents[i].label>>]

HeaderRow == << <<"E", "n", "t", "i", "t", "y">>, <<"T", "y", "p", "e">> >>

\* the cells of the data frame as character sequences: header, then the rows
FrameCells(rows) ==
    <<HeaderRow>> \o [i \in DOMAIN rows |-> <<rows[i][1], LabelChars[rows[i][2]]>>]

RECURSIVE DoubleQuotes(_)
DoubleQuotes(f) ==
    IF f = <<>> THEN <<>>
    ELSE (IF Head(f) = QUOTE THEN <<QUOTE, QUOTE>> ELSE <<Head(f)>>)
         \o DoubleQuotes(Tail(f))

\* bug: a cell is written as it is, never quoted
CsvFieldRaw(f) == f

\* DataFrame.to_csv writes with csv.QUOTE_MINIMAL: a cell holding the
\* delimiter, the quote character or a line break is enclosed in quotes and
\* its quote characters are doubled
CsvField(f) ==
    IF \E i \in DOMAIN f : f[i] \in {COMMA, QUOTE, LF}
    THEN <<QUOTE>> \o DoubleQuotes(f) \o <<QUOTE>>
    ELSE f

CsvLine(cells) == CsvField(cells[1]) \o <<COMMA>> \o CsvField(cells[2]) \o <<LF>>

RECURSIVE CsvLines(_)
CsvLines(frame) ==
    IF frame = <<>> THEN <<>> ELSE CsvLine(Head(frame)) \o CsvLines(Tail(frame))

\* df.to_csv(index=False)
ToCsv(rows) == CsvLines(FrameCells(rows))

\* Reading the exported text back, as a CSV reader does (the csv module's
\* reader, non-strict): records of fields, a quoted field may hold the
\* delimiter and line breaks, a doubled quote inside it is one quote.
RECURSIVE CsvRead(_, _, _, _, _, _)
CsvRead(s, i, mode, field, row, rows) ==
    IF i > Len(s)
    THEN IF mode = "start" /\ row = <<>> THEN rows
         ELSE Append(rows, Append(row, field))
    ELSE LET c == s[i]
             endField == CsvRead(s, i + 1, "start", <<>>, Append(row, field), rows)
             endRecord ==
                 CsvRead(s, i + 1, "start", <<>>, <<>>, Append(rows, Append(row, field)))
         IN CASE mode = "start" ->
                    IF c = QUOTE THEN CsvRead(s, i + 1, "quoted", <<>>, row, rows)
                    ELSE IF c = COMMA THEN endField
                    ELSE IF c = LF
                         THEN IF row = <<>>
                              THEN CsvRead(s, i + 1, "start", <<>>, <<>>, rows)
                              ELSE endRecord
                    ELSE CsvRead(s, i + 1, "unquoted", <<c>>, row, rows)
              [] mode = "unquoted" ->
                    IF c = COMMA THEN endField
                    ELSE IF c = LF THEN endRecord
                    ELSE CsvRead(s, i + 1, "unquoted", Append(field, c), row, rows)
              [] mode = "quoted" ->
                    IF c = QUOTE THEN CsvRead(s, i + 1, "quotequote", field, row, rows)
                    ELSE CsvRead(s, i + 1, "quoted", Append(field, c), row, rows)
              [] OTHER ->   \* a quote was read inside a quoted field
                    IF c = QUOTE
                    THEN CsvRead(s, i + 1, "quoted", Append(field, QUOTE), row, rows)
                    ELSE IF c = COMMA THEN endField
                    ELSE IF c = LF THEN endRecord
                    ELSE CsvRead(s, i + 1, "unquoted", Append(field, c), row, rows)

ParseCsv(s) == CsvRead(s, 1, "start", <<>>, <<>>, <<>>)

Table(ents) ==
    [kind |-> "table", rows |-> EntitiesData(ents), csv |-> ToCsv(EntitiesData(ents))]

----------------------------------------------------------------------------
(* tab3: Counter and the bar chart, lines 105-131 *)

EntityTypes(ents) == [i \in DOMAIN ents |-> ents[i].label]

CounterAdd(c, x) ==
    IF \E i \in DOMAIN c : c[i].key = x
    THEN [i \in DOMAIN c |-> IF c[i].key = x THEN [c[i] EXCEPT !.n = @ + 1] ELSE c[i]]
    ELSE Append(c, [key |-> x, n |-> 1])

RECURSIVE CounterOf(_)
CounterOf(xs) ==
    IF xs = <<>> THEN <<>>
    ELSE CounterAdd(CounterOf(SubSeq(xs, 1, Len(xs) - 1)), xs[Len(xs)])

\* bug: the groups are put in order of decreasing count (Counter.most_common)
MostCommon(xs) ==
    LET c == CounterOf(xs)
        Sorted[k \in 0..Len(c)] ==
            IF k = 0 THEN <<>>
            ELSE LET done == Sorted[k - 1]
                     left == {i \in DOMAIN c : \A j \in DOMAIN done : done[j] # c[i]}
                     best == CHOOSE i \in left :
                                \A j \in left : c[j].n < c[i].n \/ (c[j].n = c[i].n /\ i <= j)
                 IN Append(done, c[best])
    IN Sorted[Len(c)]

\* Counter([ent.label_ for ent in doc.ents]): a dict, so its keys() and
\* values() come in order of first insertion
Counter(xs) == CounterOf(xs)

\* ax.bar(entity_types, counts, color=colors) and the ax.annotate of each bar
Bars(ents) ==
    LET entity_counts == Counter(EntityTypes(ents))
    IN [i \in DOMAIN entity_counts |->
           [label |-> entity_counts[i].key,
            height |-> entity_counts[i].n,
            color |-> EntityColor(entity_counts[i].key),
            annotation |-> entity_counts[i].n]]

BarChart(ents) == [kind |-> "bar", bars |-> Bars(ents)]

----------------------------------------------------------------------------
(* tab4: the scatter plot, lines 143-177 *)

TypeSet(ents) == {ents[i].label : i \in DOMAIN ents}

\* the orders list(set(entity_types)) can come in: a set has no defined order
Orders(S) ==
    {f \in [1..Cardinality(S) -> S] : \A a \in S : \E i \in DOMAIN f : f[i] = a}

\* bug: the ordinal is not advanced, every type is put on line 0
TypeToNumFlat(unique_types) ==
    [t \in {unique_types[i] : i \in DOMAIN unique_types} |-> 0]

\* {ent_type: i for i, ent_type in enumerate(unique_types)}
TypeToNum(unique_types) ==
    [t \in {unique_types[i] : i \in DOMAIN unique_types} |->
        (CHOOSE i \in DOMAIN unique_types : unique_types[i] = t) - 1]

\* bug: the last entity is left out (range(len(entities) - 1))
ScatterPointsShort(ents, type_to_num) ==
    [i \in 1..(Len(ents) - 1) |->
        [x |-> i - 1, y |-> type_to_num[ents[i].label],
         color |-> EntityColor(ents[i].label), annotation |-> ents[i].text]]

\* ax.scatter(range(len(entities)), y_values, c=colors) and the ax.annotate of
\* each entity at (i, y_values[i])
ScatterPoints(ents, type_to_num) ==
    [i \in DOMAIN ents |->
        [x |-> i - 1, y |-> type_to_num[ents[i].label],
         color |-> EntityColor(ents[i].label), annotation |-> ents[i].text]]

Legend(unique_types) ==
    [i \in DOMAIN unique_types |->
        [label |-> unique_types[i], color |-> EntityColor(unique_types[i])]]

Scatter(ents, unique_types) ==
    [kind |-> "scatter",
     points |-> ScatterPoints(ents, TypeToNum(unique_types)),
     legend |-> Legend(unique_types)]

----------------------------------------------------------------------------
(* The script run *)

NoViews ==
    /\ view1 = NotRendered /\ view2 = NotRendered
    /\ view3 = NotRendered /\ view4 = NotRendered

\* pc values at which no script is running: a run ended (at the footer, or
\* at st.stop()) and the page waits for the user
Ended == {"done", "stopped"}

\* A widget interaction: Streamlit reruns the script from the top with the
\* widget state of the request.  The script's variables and the page's
\* elements start afresh; the cache is kept.
Rerun ==
    /\ pc \in Ended
    /\ \E m \in Models, t \in Texts, c \in BOOLEAN :
          /\ model_name' = m
          /\ text_input' = t
          /\ clickPending' = c
    /\ pc' = "load"
    /\ nlp' = NoModel
    /\ reused' = FALSE
    /\ sidebar' = "none"
    /\ button' = FALSE
    /\ validationError' = FALSE
    /\ doc' = NoDoc
    /\ inferCalls' = <<>>
    /\ view1' = NotRendered /\ view2' = NotRendered
    /\ view3' = NotRendered /\ view4' = NotRendered
    /\ expander' = FALSE
    /\ UNCHANGED sessionVars

\* The user follows the remediation text of line 32 between two runs:
\* python -m spacy download <model>
Install ==
    /\ pc \in Ended
    /\ \E m \in Models \ installed : installed' = installed \cup {m}
    /\ UNCHANGED <<cache, loads, widgetVars, pc, nlp, reused, sidebar, button,
                   validationError, doc, inferCalls, viewVars, expander>>

\* bug: load_model without @st.cache_resource never finds a cached object
CacheMiss(m) == FALSE

\* st.cache_resource: a value is stored for this argument
CacheHit(m) == cache[m] # NoModel

\* lines 28-30, load_model(model_name) answered from the cache
LoadCached ==
    /\ pc = "load"
    /\ CacheHit(model_name)
    /\ nlp' = cache[model_name]
    /\ reused' = TRUE
    /\ sidebar' = "success"
    /\ pc' = "button"
    /\ UNCHANGED <<sessionVars, widgetVars, button, validationError, doc,
                   inferCalls, viewVars, expander>>

\* lines 28-30 and 13-14, spacy.load(model_name) runs and returns; the
\* decorator stores the object under the argument
LoadFresh ==
    /\ pc = "load"
    /\ ~CacheHit(model_name)
    /\ model_name \in installed
    /\ loads[model_name] < MaxLoads
    /\ LET obj == [name |-> model_name, serial |-> loads[model_name] + 1]
       IN /\ loads' = [loads EXCEPT ![model_name] = @ + 1]
          /\ cache' = [cache EXCEPT ![model_name] = obj]
          /\ nlp' = obj
    /\ reused' = FALSE
    /\ sidebar' = "success"
    /\ pc' = "button"
    /\ UNCHANGED <<installed, widgetVars, button, validationError, doc,
                   inferCalls, viewVars, expander>>

\* bug: the except branch reports the error and the script goes on
LoadFailNoStop ==
    /\ pc = "load"
    /\ ~CacheHit(model_name)
    /\ model_name \notin installed
    /\ sidebar' = "error"
    /\ pc' = "button"
    /\ UNCHANGED <<sessionVars, widgetVars, nlp, reused, button, validationError, doc,
                   inferCalls, viewVars, expander>>

\* lines 28-33, spacy.load raises (nothing is cached), the except branch
\* reports the error in the sidebar and st.stop() ends the run
LoadFail ==
    /\ pc = "load"
    /\ ~CacheHit(model_name)
    /\ model_name \notin installed
    /\ sidebar' = "error"
    /\ pc' = "stopped"
    /\ UNCHANGED <<sessionVars, widgetVars, nlp, reused, button, validationError, doc,
                   inferCalls, viewVars, expander>>

\* the entity sequences nlp(text) may return; the model is a black box
NerOutputs == SeqsUpTo(SessionEntities, MaxSessEnts)

\* bug: the click is not consulted, every run analyzes
ButtonAlways(c) == TRUE

\* st.button("Analyze Text"): True in the run its click triggered
StButton(c) == c

\* bug: the text analyzed is the sample text, not what the user typed
AnalyzedTextSample(t) == DefaultText

\* the argument of nlp(...) on line 77
AnalyzedText(t) == t

\* lines 73-80: the button, the validation of the text, the inference
AnalyzeButton ==
    /\ pc = "button"
    /\ button' = StButton(clickPending)
    /\ IF ~StButton(clickPending)
       THEN /\ pc' = "expander"
            /\ UNCHANGED <<validationError, doc, inferCalls>>
       ELSE IF Strip(text_input) = <<>>
       THEN /\ validationError' = TRUE
            /\ pc' = "expander"
            /\ UNCHANGED <<doc, inferCalls>>
       ELSE \E ents \in NerOutputs :
            /\ doc' = Doc(ents)
            /\ inferCalls' = Append(inferCalls,
                   [model |-> nlp, text |-> AnalyzedText(text_input), result |-> ents])
            /\ pc' = "tab1"
            /\ UNCHANGED validationError
    /\ UNCHANGED <<sessionVars, widgetVars, nlp, reused, sidebar, viewVars, expander>>

\* lines 82-86
Tab1 ==
    /\ pc = "tab1"
    /\ view1' = DisplacyRender(text_input, doc.ents)
    /\ pc' = "tab2"
    /\ UNCHANGED <<sessionVars, widgetVars, nlp, reused, sidebar, button, validationError,
                   doc, inferCalls, view2, view3, view4, expander>>

\* lines 88-101
Tab2 ==
    /\ pc = "tab2"
    /\ view2' = IF Len(doc.ents) > 0 THEN Table(doc.ents) ELSE Notice
    /\ pc' = "tab3"
    /\ UNCHANGED <<sessionVars, widgetVars, nlp, reused, sidebar, button, validationError,
                   doc, inferCalls, view1, view3, view4, expander>>

\* bug: the chart is drawn without looking at len(doc.ents)
Tab3ViewUnguarded(ents) == BarChart(ents)

\* lines 105-133
Tab3View(ents) == IF Len(ents) > 0 THEN BarChart(ents) ELSE Notice

\* lines 103-133
Tab3 ==
    /\ pc = "tab3"
    /\ view3' = Tab3View(doc.ents)
    /\ pc' = "tab4"
    /\ UNCHANGED <<sessionVars, widgetVars, nlp, reused, sidebar, button, validationError,
                   doc, inferCalls, view1, view2, view4, expander>>

\* lines 135-179; list(set(entity_types)) comes in any order
Tab4 ==
    /\ pc = "tab4"
    /\ IF Len(doc.ents) > 0
       THEN \E unique_types \in Orders(TypeSet(doc.ents)) :
                view4' = Scatter(doc.ents, unique_types)
       ELSE view4' = Notice
    /\ pc' = "expander"
    /\ UNCHANGED <<sessionVars, widgetVars, nlp, reused, sidebar, button, validationError,
                   doc, inferCalls, view1, view2, view3, expander>>

\* lines 181-205: the reference panel and the footer; the run ends
Expander ==
    /\ pc = "expander"
    /\ expander' = TRUE
    /\ pc' = "done"
    /\ UNCHANGED <<sessionVars, widgetVars, nlp, reused, sidebar, button, validationError,
                   doc, inferCalls, viewVars>>

----------------------------------------------------------------------------
(* Specifications *)

\* The session: the process starts with an empty cache and Streamlit runs
\* the script with the widgets' default values.
Init ==
    /\ installed \in SUBSET Models
    /\ cache = [m \in Models |-> NoModel]
    /\ loads = [m \in Models |-> 0]
    /\ model_name = ModelChoices[1]
    /\ text_input = DefaultText
    /\ clickPending = FALSE
    /\ pc = "load"
    /\ nlp = NoModel
    /\ reused = FALSE
    /\ sidebar = "none"
    /\ button = FALSE
    /\ validationError = FALSE
    /\ doc = NoDoc
    /\ inferCalls = <<>>
    /\ NoViews
    /\ expander = FALSE

Next ==
    \/ Rerun
    \/ Install
    \/ LoadCached
    \/ LoadFresh
    \/ LoadFail
    \/ AnalyzeButton
    \/ Tab1
    \/ Tab2
    \/ Tab3
    \/ Tab4
    \/ Expander

Spec == Init /\ [][Next]_vars

\* A run in which line 77 has just returned ents for the sample text, under
\* the default model
Analyzed(ents) ==
    LET obj == [name |-> ModelChoices[1], serial |-> 1]
    IN /\ installed = Models
       /\ cache = [m \in Models |-> IF m = ModelChoices[1] THEN obj ELSE NoModel]
       /\ loads = [m \in Models |-> IF m = ModelChoices[1] THEN 1 ELSE 0]
       /\ model_name = ModelChoices[1]
       /\ text_input = DefaultText
       /\ clickPending = TRUE
       /\ nlp = obj
       /\ reused = FALSE
       /\ sidebar = "success"
       /\ button = TRUE
       /\ validationError = FALSE
       /\ doc = Doc(ents)
       /\ inferCalls = <<[model |-> obj, text |-> DefaultText, result |-> ents]>>
       /\ expander = FALSE

\* The renderers as functions of the entity sequence: every entity sequence
\* of the bound, then the four tabs and the expander.
InitRender ==
    /\ \E ents \in SeqsUpTo(RenderEntities, MaxEnts) : Analyzed(ents)
    /\ pc = "tab1"
    /\ NoViews

NextRender == Tab1 \/ Tab2 \/ Tab3 \/ Tab4 \/ Expander

SpecRender == InitRender /\ [][NextRender]_vars

\* The export as a function of the entity sequence: entity texts made of
\* the delimiter, the quote character, the line break and a letter; tab1 has
\* rendered, tab2 is about to.
InitCsv ==
    /\ \E ents \in SeqsUpTo(CsvEntities, CsvMaxRows) :
          /\ Analyzed(ents)
          /\ view1 = DisplacyRender(DefaultText, ents)
    /\ pc = "tab2"
    /\ view2 = NotRendered /\ view3 = NotRendered /\ view4 = NotRendered

NextCsv == Tab2

SpecCsv == InitCsv /\ [][NextCsv]_vars

----------------------------------------------------------------------------
(* Properties *)

\* a text that is empty or made of whitespace only
Blank(t) == \A i \in DOMAIN t : IsSpace(t[i])

AfterLoad == {"button", "tab1", "tab2", "tab3", "tab4", "expander", "done"}

\* the colour the static table gives a category, the fallback for the others
ExpectedColor(l) ==
    CASE l = "PERSON" -> "#7aecec"
      [] l = "ORG" -> "#feca74"
      [] OTHER -> "#cccccc"

Occurrences(ents, l) == Cardinality({k \in DOMAIN ents : ents[k].label = l})
FirstIndex(ents, l) ==
    CHOOSE k \in DOMAIN ents :
        ents[k].label = l /\ \A j \in 1..(k - 1) : ents[j].label # l

\* C1: when loading the selected identifier fails (it is neither cached nor
\* installed) the run shows the model-unavailable error and stops there:
\* whatever the text and the click, that run invokes no inference and renders
\* nothing further; and every step after the load, and every inference call,
\* has a bound model, the one of the selected identifier.
C1_LoadFailureHalts ==
    /\ (pc # "load" /\ cache[model_name] = NoModel /\ model_name \notin installed)
          => (sidebar = "error" /\ pc = "stopped")
    /\ sidebar = "error"
          => /\ pc = "stopped"
             /\ nlp = NoModel
             /\ inferCalls = <<>> /\ doc = NoDoc
             /\ NoViews /\ ~button /\ ~validationError /\ ~expander
    /\ pc \in AfterLoad => (nlp # NoModel /\ nlp.name = model_name)
    /\ \A i \in DOMAIN inferCalls : inferCalls[i].model # NoModel

\* a run that carried a click and a text that is not blank, stopped by the
\* failed load
C1_Witness ==
    /\ pc = "stopped" /\ sidebar = "error"
    /\ clickPending /\ ~Blank(text_input)
    /\ model_name \notin installed

\* C2: when the Analyze button reports a click and the text is empty or
\* whitespace only, the validation error is shown; and no run that carries a
\* click with such a text invokes inference or renders any of the four views.
C2_BlankRejected ==
    /\ (button /\ Blank(text_input)) => validationError
    /\ (clickPending /\ Blank(text_input))
          => (inferCalls = <<>> /\ doc = NoDoc /\ NoViews)

\* a finished run that rejected a text of whitespace
C2_Witness ==
    /\ pc = "done" /\ button /\ validationError
    /\ text_input # <<>> /\ Blank(text_input)

ZeroEntityRun ==
    /\ pc = "done" /\ button /\ ~Blank(text_input)
    /\ doc.bound /\ doc.ents = <<>>

\* C3 as claimed: for an analyzed text with zero entities, all four views
\* show the "no entities" notice.
C3_AllFourNotice ==
    ZeroEntityRun
        => (view1 = Notice /\ view2 = Notice /\ view3 = Notice /\ view4 = Notice)

\* C3: for an analyzed text with zero entities, the entity list, the entity
\* count and the entity visualization show the "no entities" notice and no
\* table or chart; the highlighter shows no notice: it renders displaCy's
\* markup of the text, with no entity marked.
C3_ThreeNoticeOneMarkup ==
    ZeroEntityRun
        => /\ view2 = Notice /\ view3 = Notice /\ view4 = Notice
           /\ view1 = [kind |-> "markup", text |-> text_input, marks |-> <<>>]

C3_Witness == ZeroEntityRun /\ validationError = FALSE /\ Len(inferCalls) = 1

RowCount(v) == IF v.kind = "table" THEN Len(v.rows) ELSE 0
PointCount(v) == IF v.kind = "scatter" THEN Len(v.points) ELSE 0
RECURSIVE SumHeights(_)
SumHeights(bars) ==
    IF bars = <<>> THEN 0 ELSE Head(bars).height + SumHeights(Tail(bars))
BarTotal(v) == IF v.kind = "bar" THEN SumHeights(v.bars) ELSE 0

\* C4: in a finished analysis the table's row count, the sum of the bar
\* counts and the number of scatter points all equal the length of the entity
\* sequence inference returned.
C4_ViewsAgreeOnTotal ==
    (pc = "done" /\ doc.bound)
        => /\ RowCount(view2) = Len(doc.ents)
           /\ BarTotal(view3) = Len(doc.ents)
           /\ PointCount(view4) = Len(doc.ents)

\* three entities of two categories, one entity occurring twice
C4_Witness ==
    /\ pc = "done" /\ Len(doc.ents) = 3
    /\ doc.ents[1] = doc.ents[3] /\ doc.ents[1].label # doc.ents[2].label
    /\ view2.kind = "table" /\ view3.kind = "bar" /\ view4.kind = "scatter"

\* C5: the export read back is the header Entity,Type followed by one record
\* per entity, its text and category, in document order, nothing merged; the
\* table has the same rows.
C5_ExportRoundTrip ==
    (pc = "tab3" /\ Len(doc.ents) > 0)
        => /\ view2.kind = "table"
           /\ view2.rows = [i \in DOMAIN doc.ents |->
                               <<doc.ents[i].text, doc.ents[i].label>>]
           /\ ParseCsv(view2.csv) =
                 << << <<"E", "n", "t", "i", "t", "y">>, <<"T", "y", "p", "e">> >> >>
                 \o [i \in DOMAIN doc.ents |->
                        <<doc.ents[i].text, LabelChars[doc.ents[i].label]>>]

\* the same entity twice, its text a quote character, exported
C5_Witness ==
    /\ pc = "tab3" /\ Len(doc.ents) = 2
    /\ doc.ents[1] = doc.ents[2] /\ doc.ents[1].text = <<QUOTE>>
    /\ view2.kind = "table"

\* C6: the chart has one bar per category present and none for another, the
\* bars stand in the order of their categories' first occurrences, and each
\* bar's height and label are the number of entities of its category.
C6_BarsPerCategory ==
    (pc = "done" /\ Len(doc.ents) > 0)
        => /\ view3.kind = "bar"
           /\ LET bars == view3.bars
                  ents == doc.ents
              IN /\ {bars[i].label : i \in DOMAIN bars} = {ents[k].label : k \in DOMAIN ents}
                 /\ \A i, j \in DOMAIN bars :
                       i < j => FirstIndex(ents, bars[i].label) < FirstIndex(ents, bars[j].label)
                 /\ \A i \in DOMAIN bars :
                       /\ bars[i].height = Occurrences(ents, bars[i].label)
                       /\ bars[i].annotation = Occurrences(ents, bars[i].label)

\* the rarer category occurs first: first-occurrence order is not frequency
\* order
C6_Witness ==
    /\ pc = "done" /\ Len(doc.ents) = 3
    /\ doc.ents[1].label = "ORG"
    /\ doc.ents[2].label = "PERSON" /\ doc.ents[3].label = "PERSON"
    /\ Len(view3.bars) = 2

\* C7: the underlying load returns at most once per identifier; the cache
\* holds, for an identifier, nothing before that load and the object of that
\* first load ever after; and a run past the load works with the cached
\* object of the selected identifier.
C7_LoadOncePerIdentifier ==
    /\ \A m \in Models :
          /\ loads[m] <= 1
          /\ (cache[m] = NoModel) <=> (loads[m] = 0)
          /\ cache[m] # NoModel => cache[m] = [name |-> m, serial |-> 1]
    /\ pc \in AfterLoad => nlp = cache[model_name]
    /\ reused => loads[model_name] = 1

\* all three identifiers loaded, and this run answered from the cache
C7_Witness ==
    /\ pc = "done" /\ reused
    /\ \A m \in Models : loads[m] = 1

\* C8: a run in which the button reports a click and the text is not blank
\* has invoked inference exactly once, with the selected identifier's model on
\* the text of this run, and each view rendered in the run is the rendering of
\* the result of that call.
C8_FreshInference ==
    (button /\ ~Blank(text_input))
        => /\ Len(inferCalls) = 1
           /\ inferCalls[1].model = cache[model_name]
           /\ inferCalls[1].model.name = model_name
           /\ inferCalls[1].text = text_input
           /\ doc = Doc(inferCalls[1].result)
           /\ LET r == inferCalls[1].result
              IN /\ pc \in {"tab2", "tab3", "tab4", "expander", "done"}
                    => view1 = DisplacyRender(text_input, r)
                 /\ pc \in {"tab3", "tab4", "expander", "done"}
                    => view2 = IF r = <<>> THEN Notice ELSE Table(r)
                 /\ pc \in {"tab4", "expander", "done"}
                    => view3 = IF r = <<>> THEN Notice ELSE BarChart(r)
                 /\ pc \in {"expander", "done"}
                    => IF r = <<>> THEN view4 = Notice
                       ELSE \E o \in Orders(TypeSet(r)) : view4 = Scatter(r, o)

\* an analysis under the second identifier, answered from the cache, of a
\* text that is not the sample text
C8_Witness ==
    /\ pc = "done" /\ button /\ reused
    /\ model_name = ModelChoices[2]
    /\ text_input = <<" ", "x">>
    /\ Len(doc.ents) = 2

\* C9: the scatter has one point per entity, at (its index from 0, the
\* ordinal of its category), annotated with its text and coloured with its
\* category's colour; two points share an ordinal exactly when they share a
\* category and the ordinals are 0 .. (categories - 1); the legend has one
\* entry per category present, with that colour.
C9_ScatterPoints ==
    (pc = "done" /\ Len(doc.ents) > 0)
        => /\ view4.kind = "scatter"
           /\ LET pts == view4.points
                  leg == view4.legend
                  ents == doc.ents
                  cats == {ents[k].label : k \in DOMAIN ents}
              IN /\ DOMAIN pts = DOMAIN ents
                 /\ \A i \in DOMAIN pts :
                       /\ pts[i].x = i - 1
                       /\ pts[i].annotation = ents[i].text
                       /\ pts[i].color = ExpectedColor(ents[i].label)
                       /\ pts[i].y \in 0..(Cardinality(cats) - 1)
                 /\ \A i, j \in DOMAIN pts :
                       (pts[i].y = pts[j].y) <=> (ents[i].label = ents[j].label)
                 /\ Len(leg) = Cardinality(cats)
                 /\ {leg[i].label : i \in DOMAIN leg} = cats
                 /\ \A i \in DOMAIN leg : leg[i].color = ExpectedColor(leg[i].label)

\* three categories, one of them without a colour of its own, in an order
\* that is not the order of their first occurrences
C9_Witness ==
    /\ pc = "done" /\ Len(doc.ents) = 3
    /\ {doc.ents[k].label : k \in 1..3} = Labels
    /\ view4.points[1].y = 2 /\ view4.points[3].y = 0

\* C10: a run whose request carries no click invokes no inference, shows no
\* validation error and renders none of the four views; a view is rendered
\* only where the button reported the click; and every run that ends past the
\* load has rendered the reference panel, a stopped one has not.
C10_ViewsOnlyOnClick ==
    /\ ~clickPending => (inferCalls = <<>> /\ doc = NoDoc /\ NoViews /\ ~validationError)
    /\ ~NoViews => (clickPending /\ button)
    /\ pc = "done" => expander
    /\ pc = "stopped" => ~expander

\* a run without click, on a blank text, that rendered the panel
C10_Witness ==
    /\ pc = "done" /\ ~clickPending /\ expander
    /\ Blank(text_input) /\ NoViews

====
